---- MODULE Spec2Model ----
(***************************************************************************)
(* Model of investment_comp_app.py: a Streamlit script that is re-executed *)
(* from top to bottom on every widget change.  One behaviour of the model  *)
(* is a sequence of script runs ("passes") over the persistent widget      *)
(* values.                                                                 *)
(*                                                                         *)
(* Python floats are modelled as signed decimal fixed-point numbers with   *)
(* eight fractional digits: the pair <<h, l>> stands for h + l / ONE with  *)
(* 0 <= l < ONE.  Products and quotients are rounded to the nearest unit   *)
(* in the last place.  Magnitudes stay below 10^8.                         *)
(***************************************************************************)
EXTENDS Integers, Sequences, FiniteSets, TLC

\* ------------------------------------------------------------------------
\* Fixed-point arithmetic standing for Python's float operators
\* ------------------------------------------------------------------------

\* One limb of a number: numbers are handled in base-LIMB digits.
LIMB == 10 ^ 4

\* The number of units in 1.0 (two fractional limbs).
ONE == LIMB * LIMB

\* The number of decimal digits after the point.
FRAC_DIGITS == 2 * 4

Norm(h, l) == <<h + (l \div ONE), l % ONE>>

FromInt(n) == <<n, 0>>

\* n / 10^d for an integer n >= 0 and 0 <= d <= FRAC_DIGITS: a decimal literal.
Dec(n, d) == Norm(0, n * 10 ^ (FRAC_DIGITS - d))

Zero == FromInt(0)

IsZero(a) == a = Zero

IsNeg(a) == a[1] < 0

Leq(a, b) == a[1] < b[1] \/ (a[1] = b[1] /\ a[2] <= b[2])

Less(a, b) == Leq(a, b) /\ a # b

Add(a, b) == Norm(a[1] + b[1], a[2] + b[2])

Neg(a) == Norm(-a[1], -a[2])

Sub(a, b) == Add(a, Neg(b))

Abs(a) == IF IsNeg(a) THEN Neg(a) ELSE a

\* a * c for a small integer 0 <= c <= 10, exact.
SmallMul(a, c) == Norm(c * a[1], c * a[2])

\* Product of two non-negative numbers by schoolbook multiplication on the
\* four limbs of each, rounded to the nearest unit in the last place.
MulAbs(a, b) ==
    LET a3 == a[1] \div LIMB
        a2 == a[1] % LIMB
        a1 == a[2] \div LIMB
        a0 == a[2] % LIMB
        b3 == b[1] \div LIMB
        b2 == b[1] % LIMB
        b1 == b[2] \div LIMB
        b0 == b[2] % LIMB
        c0 == a0 * b0
        c1 == a0 * b1 + a1 * b0
        c2 == a0 * b2 + a1 * b1 + a2 * b0
        c3 == a0 * b3 + a1 * b2 + a2 * b1 + a3 * b0
        c4 == a1 * b3 + a2 * b2 + a3 * b1
        c5 == a2 * b3 + a3 * b2
        c6 == a3 * b3
        t1 == c1 + (c0 \div LIMB)
        rnd == IF (t1 % LIMB) >= (LIMB \div 2) THEN 1 ELSE 0
        t2 == c2 + (t1 \div LIMB) + rnd
        t3 == c3 + (t2 \div LIMB)
        t4 == c4 + (t3 \div LIMB)
    IN  Norm(t4 + c5 * LIMB + c6 * ONE, (t3 % LIMB) * LIMB + (t2 % LIMB))

Mul(a, b) ==
    LET m == MulAbs(Abs(a), Abs(b))
    IN  IF IsNeg(a) # IsNeg(b) THEN Neg(m) ELSE m

\* The largest y * 10^j that does not exceed x, with j (for 0 < y, 0 <= x).
RECURSIVE AlignUp(_, _, _)
AlignUp(x, ys, j) ==
    IF Leq(SmallMul(ys, 10), x) THEN AlignUp(x, SmallMul(ys, 10), j + 1)
    ELSE <<ys, j>>

\* The next quotient digit: the largest c in 0..9 with c * y <= r.
Digit(r, y) ==
    CHOOSE c \in 0..9 :
        /\ Leq(SmallMul(y, c), r)
        /\ (c = 9 \/ ~Leq(SmallMul(y, c + 1), r))

\* Long division, one decimal digit per step, from position 10^p down to
\* 10^-FRAC_DIGITS; the digit after the last one rounds the quotient.
RECURSIVE DivDigits(_, _, _, _, _)
DivDigits(r, y, p, h, l) ==
    IF p < -FRAC_DIGITS
    THEN Norm(h, l + (IF Leq(SmallMul(y, 5), r) THEN 1 ELSE 0))
    ELSE LET d == Digit(r, y)
             rest == SmallMul(Sub(r, SmallMul(y, d)), 10)
         IN  DivDigits(rest, y, p - 1,
                       IF p >= 0 THEN h + d * 10 ^ p ELSE h,
                       IF p < 0 THEN l + d * 10 ^ (FRAC_DIGITS + p) ELSE l)

\* Quotient of two non-negative numbers, y # 0.
DivAbs(x, y) ==
    LET al == AlignUp(x, y, 0)
    IN  DivDigits(x, al[1], al[2], 0, 0)

\* x / y for y # 0 (the callers raise ZeroDivisionError before dividing by 0).
Div(x, y) ==
    LET q == DivAbs(Abs(x), Abs(y))
    IN  IF IsNeg(x) # IsNeg(y) THEN Neg(q) ELSE q

\* base ** n for an integer n >= 0, by repeated squaring.
RECURSIVE Pow(_, _)
Pow(base, n) ==
    IF n = 0 THEN FromInt(1)
    ELSE IF n % 2 = 0
         THEN LET s == Pow(base, n \div 2) IN Mul(s, s)
         ELSE Mul(base, Pow(base, n - 1))

\* Sum of a sequence of numbers, left to right.
RECURSIVE SumSeq(_)
SumSeq(s) == IF s = << >> THEN Zero ELSE Add(SumSeq(SubSeq(s, 1, Len(s) - 1)), s[Len(s)])

\* ------------------------------------------------------------------------
\* numpy_financial, as the script uses it
\* ------------------------------------------------------------------------

\* npf.npv(rate, values): sum of values[i] / (1 + rate) ** i, i from 0.
npv(rate, values) ==
    SumSeq([i \in 1..Len(values) |->
               Div(values[i], Pow(Add(FromInt(1), rate), i - 1))])

\* npf.irr(values).  The root finder itself is outside the script; its result
\* is kept as the flows it is the root of.  It is nan when the flows never
\* change sign, and exactly 0 when the flows sum to 0.
irr(values) ==
    IF ~ \E i, j \in 1..Len(values) : IsNeg(values[i]) /\ Less(Zero, values[j])
    THEN [kind |-> "nan", flows |-> << >>]
    ELSE IF IsZero(SumSeq(values))
         THEN [kind |-> "zero", flows |-> values]
         ELSE [kind |-> "root", flows |-> values]

\* ------------------------------------------------------------------------
\* Widgets
\* ------------------------------------------------------------------------

\* Largest holding period the user types in, besides the default.
MaxHolding == 1

\* The value= of every widget.
Defaults ==
    [purchase_price |-> 300000, down_payment_percent |-> 20,
     annual_interest_rate |-> 4, loan_term_years |-> 30,
     monthly_rental_income |-> 2000, operating_expenses_percent |-> 30,
     appreciation_rate |-> 3, closing_costs_percent |-> 5,
     selling_costs_percent |-> 6, holding_period_years |-> 5,
     initial_stock_investment |-> 75000, expected_annual_return_rate |-> 8,
     std_dev_stocks |-> 15, inflation_rate |-> 2, std_dev_real_estate |-> 4]

\* The values the user gives to the widgets they touch.
Choices ==
    [down_payment_percent |-> {0, Defaults.down_payment_percent, 100},
     monthly_rental_income |-> {0, Defaults.monthly_rental_income},
     initial_stock_investment |-> {0, Defaults.initial_stock_investment},
     annual_interest_rate |-> {0, Defaults.annual_interest_rate},
     closing_costs_percent |-> {0, Defaults.closing_costs_percent},
     holding_period_years |-> (0..MaxHolding) \cup {Defaults.holding_period_years},
     expected_annual_return_rate |-> {0, Defaults.expected_annual_return_rate}]

None == << >>

Some(x) == <<x>>

VARIABLES
    params,               \* the widget values (Streamlit keeps them across runs)
    pc,                   \* position of the running script
    re,                   \* locals of calculate_real_estate_investment
    st,                   \* locals of calculate_stock_investment
    real_estate_results,  \* module global, line 139
    stock_results,        \* module global, line 140
    shown,                \* final_portfolio_value and total_return, lines 159-160
    metrics,              \* the module globals of lines 232-254
    output,               \* the headers written to the page so far
    error,                \* the uncaught exception that ended the run
    first,                \* outcome of the first run
    prev                  \* widget values and outcome of the previous run

vars == <<params, pc, re, st, real_estate_results, stock_results, shown,
          metrics, output, error, first, prev>>

\* ------------------------------------------------------------------------
\* calculate_real_estate_investment
\* ------------------------------------------------------------------------

Percent(x, pct) == Div(Mul(x, FromInt(pct)), FromInt(100))

down_payment(p) == Percent(FromInt(p.purchase_price), p.down_payment_percent)

loan_amount(p) == Sub(FromInt(p.purchase_price), down_payment(p))

monthly_interest_rate(p) ==
    Div(Div(FromInt(p.annual_interest_rate), FromInt(12)), FromInt(100))

\* The term taken for the number of payments: years, not months.
number_of_payments_in_years(p) == p.loan_term_years

number_of_payments(p) == p.loan_term_years * 12

\* (1 + monthly_interest_rate) ** number_of_payments
Growth(p) == Pow(Add(FromInt(1), monthly_interest_rate(p)), number_of_payments(p))

\* The divisor of the amortization formula.
AmortizationDivisor(p) == Sub(Growth(p), FromInt(1))

MonthlyPayment(p) ==
    Div(Mul(loan_amount(p), Mul(monthly_interest_rate(p), Growth(p))),
        AmortizationDivisor(p))

annual_mortgage_payment(p) == Mul(MonthlyPayment(p), FromInt(12))

annual_rental_income(p) == FromInt(p.monthly_rental_income * 12)

NOI(p) ==
    Sub(annual_rental_income(p),
        Percent(annual_rental_income(p), p.operating_expenses_percent))

annual_cash_flow(p) == Sub(NOI(p), annual_mortgage_payment(p))

closing_costs(p) == Percent(FromInt(p.purchase_price), p.closing_costs_percent)

initial_cash_investment(p) == Add(down_payment(p), closing_costs(p))

cash_on_cash_return(p) ==
    Mul(Div(annual_cash_flow(p), initial_cash_investment(p)), FromInt(100))

\* An exception that is noted and stepped over: the script goes on with the
\* stock calculation.
RaiseAndContinue(type, at) ==
    /\ pc' = "calc_stock"
    /\ error' = Some([type |-> type, at |-> at])

\* The script state, as on the way out of an uncaught exception.
Raise(type, at) ==
    /\ pc' = "raised"
    /\ error' = Some([type |-> type, at |-> at])

\* The lists a call starts with (lines 71-74).
NewLists ==
    [equity_list |-> << >>, property_value_list |-> << >>,
     mortgage_balance_list |-> << >>, annual_cash_flow_list |-> << >>]

\* Lines 45-74: everything before the loop.  The amortization formula divides
\* by (1 + r) ** n - 1 and the cash-on-cash return by the initial investment.
RE_Setup ==
    /\ pc = "calc_re"
    /\ IF IsZero(AmortizationDivisor(params))
       THEN /\ Raise("ZeroDivisionError", "M")
            /\ UNCHANGED re
       ELSE IF IsZero(initial_cash_investment(params))
       THEN /\ Raise("ZeroDivisionError", "cash_on_cash_return")
            /\ UNCHANGED re
       ELSE /\ re' = Some([M |-> MonthlyPayment(params),
                           monthly_interest_rate |-> monthly_interest_rate(params),
                           loan_amount |-> loan_amount(params),
                           annual_cash_flow |-> annual_cash_flow(params),
                           initial_cash_investment |-> initial_cash_investment(params),
                           cash_on_cash_return |-> cash_on_cash_return(params),
                           property_value |-> FromInt(params.purchase_price),
                           mortgage_balance |-> loan_amount(params),
                           lists |-> NewLists,
                           year |-> 1])
            /\ pc' = "re_loop"
            /\ UNCHANGED error
    /\ UNCHANGED <<params, st, real_estate_results, stock_results, shown,
                   metrics, output, first, prev>>

\* range(1, holding_period_years): one year short.
RE_InRangeShort(year, holding) == year < holding

\* range(1, holding_period_years + 1) still has a value for `year`.
RE_InRange(year, holding) == year <= holding

\* Line 76.
Appreciate(property_value, rate) ==
    Mul(property_value, Add(FromInt(1), Div(FromInt(rate), FromInt(100))))

\* The balance with a year of simple interest instead of twelve compounded
\* months.
NextMortgageBalanceSimple(mortgage_balance, r, M) ==
    Sub(Mul(mortgage_balance, Add(FromInt(1), Mul(r, FromInt(12)))),
        Mul(M, FromInt(12)))

\* Line 79.
NextMortgageBalance(mortgage_balance, r, M) ==
    Sub(Mul(mortgage_balance, Pow(Add(FromInt(1), r), 12)), Mul(M, FromInt(12)))

\* Lines 75-83: one iteration of the loop.
RE_Loop ==
    /\ pc = "re_loop"
    /\ RE_InRange(re[1].year, params.holding_period_years)
    /\ LET f == re[1]
           property_value == Appreciate(f.property_value, params.appreciation_rate)
           mortgage_balance ==
               NextMortgageBalance(f.mortgage_balance, f.monthly_interest_rate, f.M)
           equity == Sub(property_value, mortgage_balance)
       IN  re' = Some([f EXCEPT
                 !.property_value = property_value,
                 !.mortgage_balance = mortgage_balance,
                 !.lists = [equity_list |-> Append(f.lists.equity_list, equity),
                            property_value_list |->
                                Append(f.lists.property_value_list, property_value),
                            mortgage_balance_list |->
                                Append(f.lists.mortgage_balance_list, mortgage_balance),
                            annual_cash_flow_list |->
                                Append(f.lists.annual_cash_flow_list, f.annual_cash_flow)],
                 !.year = f.year + 1])
    /\ UNCHANGED <<params, pc, st, real_estate_results, stock_results, shown,
                   metrics, output, error, first, prev>>

\* Lines 86-87.
EquityAtSale(property_value, mortgage_balance, selling_costs_percent) ==
    Sub(Sub(property_value, mortgage_balance),
        Percent(property_value, selling_costs_percent))

\* The sale proceeds added to every year's flow, not to the last one only.
RE_CashFlowsAllAugmented(initial, annual_cash_flow_list, equity_at_sale) ==
    <<Neg(initial)>>
    \o [i \in 1..Len(annual_cash_flow_list) |->
           Add(annual_cash_flow_list[i], equity_at_sale)]

\* Line 90, for a non-empty annual_cash_flow_list.
RE_CashFlows(initial, annual_cash_flow_list, equity_at_sale) ==
    <<Neg(initial)>>
    \o SubSeq(annual_cash_flow_list, 1, Len(annual_cash_flow_list) - 1)
    \o <<Add(annual_cash_flow_list[Len(annual_cash_flow_list)], equity_at_sale)>>

\* Lines 93-94: the expected stock return is the discount rate.
RE_NPV(expected_annual_return_rate, cash_flows) ==
    npv(Div(FromInt(expected_annual_return_rate), FromInt(100)), cash_flows)

\* Lines 85-111 and 139: the loop is over; annual_cash_flow_list[-1] raises
\* IndexError on an empty list.
RE_Finish ==
    /\ pc = "re_loop"
    /\ ~RE_InRange(re[1].year, params.holding_period_years)
    /\ LET f == re[1]
           equity_at_sale ==
               EquityAtSale(f.property_value, f.mortgage_balance,
                            params.selling_costs_percent)
           cash_flows ==
               RE_CashFlows(f.initial_cash_investment,
                            f.lists.annual_cash_flow_list, equity_at_sale)
       IN  IF f.lists.annual_cash_flow_list = << >>
           THEN /\ Raise("IndexError", "cash_flows")
                /\ UNCHANGED real_estate_results
           ELSE /\ real_estate_results' =
                       Some([annual_cash_flow |-> f.annual_cash_flow,
                             initial_cash_investment |-> f.initial_cash_investment,
                             cash_on_cash_return |-> f.cash_on_cash_return,
                             equity_at_sale |-> equity_at_sale,
                             NPV |-> RE_NPV(params.expected_annual_return_rate,
                                            cash_flows),
                             IRR |-> irr(cash_flows),
                             equity_list |-> f.lists.equity_list,
                             property_value_list |-> f.lists.property_value_list,
                             mortgage_balance_list |-> f.lists.mortgage_balance_list,
                             annual_cash_flow_list |-> f.lists.annual_cash_flow_list,
                             cash_flows |-> cash_flows])
                /\ pc' = "calc_stock"
                /\ UNCHANGED error
    /\ re' = None
    /\ UNCHANGED <<params, st, stock_results, shown, metrics, output, first, prev>>

\* ------------------------------------------------------------------------
\* calculate_stock_investment
\* ------------------------------------------------------------------------

\* Lines 114-116.
Stock_Setup ==
    /\ pc = "calc_stock"
    /\ st' = Some([portfolio_values |-> <<FromInt(params.initial_stock_investment)>>,
                   annual_returns |-> << >>,
                   year |-> 1])
    /\ pc' = "stock_loop"
    /\ UNCHANGED <<params, re, real_estate_results, stock_results, shown,
                   metrics, output, error, first, prev>>

\* range(1, years + 1) still has a value for `year`.
Stock_InRange(year, years) == year <= years

\* The return taken on the initial investment every year: no compounding.
AnnualReturnOnPrincipal(portfolio_values, expected_annual_return_rate) ==
    Percent(portfolio_values[1], expected_annual_return_rate)

\* Line 118.
AnnualReturn(portfolio_values, expected_annual_return_rate) ==
    Percent(portfolio_values[Len(portfolio_values)], expected_annual_return_rate)

\* Lines 117-120: one iteration of the loop.
Stock_Loop ==
    /\ pc = "stock_loop"
    /\ Stock_InRange(st[1].year, params.holding_period_years)
    /\ LET f == st[1]
           annual_return ==
               AnnualReturn(f.portfolio_values, params.expected_annual_return_rate)
       IN  st' = Some([portfolio_values |->
                           Append(f.portfolio_values,
                                  Add(f.portfolio_values[Len(f.portfolio_values)],
                                      annual_return)),
                       annual_returns |-> Append(f.annual_returns, annual_return),
                       year |-> f.year + 1])
    /\ UNCHANGED <<params, pc, re, real_estate_results, stock_results, shown,
                   metrics, output, error, first, prev>>

\* The initial outlay taken from the real-estate result.
Stock_CashFlowsOfRealEstate(initial_stock_investment, annual_returns) ==
    <<Neg(real_estate_results[1].initial_cash_investment)>> \o annual_returns

\* Line 123.
Stock_CashFlows(initial_stock_investment, annual_returns) ==
    <<Neg(FromInt(initial_stock_investment))>> \o annual_returns

\* Lines 122-136 and 140.
Stock_Finish ==
    /\ pc = "stock_loop"
    /\ ~Stock_InRange(st[1].year, params.holding_period_years)
    /\ LET f == st[1]
           cash_flows ==
               Stock_CashFlows(params.initial_stock_investment, f.annual_returns)
       IN  stock_results' =
               Some([portfolio_values |-> f.portfolio_values,
                     annual_returns |-> f.annual_returns,
                     NPV |-> npv(Div(FromInt(params.expected_annual_return_rate),
                                     FromInt(100)), cash_flows),
                     IRR |-> irr(cash_flows),
                     cash_flows |-> cash_flows])
    /\ st' = None
    /\ pc' = "display"
    /\ UNCHANGED <<params, re, real_estate_results, shown, metrics, output,
                   error, first, prev>>

\* ------------------------------------------------------------------------
\* The rest of the script
\* ------------------------------------------------------------------------

NoMetrics == [CV |-> None, real_return |-> None, payback |-> None]

\* Lines 144-164: the two result columns.
Display ==
    /\ pc = "display"
    /\ LET final_portfolio_value ==
               stock_results[1].portfolio_values[Len(stock_results[1].portfolio_values)]
       IN  shown' = Some([final_portfolio_value |-> final_portfolio_value,
                          total_return |->
                              Sub(final_portfolio_value,
                                  FromInt(params.initial_stock_investment))])
    /\ output' = output \o <<"Investment Results Comparison",
                             "Real Estate Investment", "Stock Market Investment">>
    /\ pc' = "charts"
    /\ UNCHANGED <<params, re, st, real_estate_results, stock_results, metrics,
                   error, first, prev>>

\* pd.DataFrame raises ValueError unless all its columns have the same length.
SameLength(columns) == \A i, j \in 1..Len(columns) : columns[i] = columns[j]

\* Lines 168-225: the three data frames and the three figures.
Charts ==
    /\ pc = "charts"
    /\ LET years == IF params.holding_period_years > 0
                    THEN params.holding_period_years ELSE 0
           r == real_estate_results[1]
           s == stock_results[1]
       IN  IF ~SameLength(<<years, Len(r.property_value_list),
                            Len(r.mortgage_balance_list), Len(r.equity_list),
                            Len(r.annual_cash_flow_list)>>)
           THEN /\ Raise("ValueError", "real_estate_df")
                /\ output' = Append(output, "Investment Performance Over Time")
           ELSE IF ~SameLength(<<years, Len(s.portfolio_values) - 1,
                                 Len(s.annual_returns)>>)
           THEN /\ Raise("ValueError", "stock_df")
                /\ output' = Append(output, "Investment Performance Over Time")
           ELSE /\ output' = output \o <<"Investment Performance Over Time",
                                         "Real Estate Investment Over Time",
                                         "Annual Cash Flows Comparison",
                                         "Stock Market Investment Over Time">>
                /\ pc' = "risk"
                /\ UNCHANGED error
    /\ UNCHANGED <<params, re, st, real_estate_results, stock_results, shown,
                   metrics, first, prev>>

\* Lines 228-238: the coefficients of variation.  The real-estate one divides
\* by IRR * 100, which stays the root finder's result; nan divides to nan.
RiskAssessment ==
    /\ pc = "risk"
    /\ output' = Append(output, "Risk Assessment")
    /\ LET IRR == real_estate_results[1].IRR
       IN  IF IRR.kind = "zero"
           THEN /\ Raise("ZeroDivisionError", "CV_real_estate")
                /\ UNCHANGED metrics
           ELSE IF params.expected_annual_return_rate = 0
           THEN /\ Raise("ZeroDivisionError", "CV_stocks")
                /\ UNCHANGED metrics
           ELSE /\ metrics' =
                       [metrics EXCEPT !.CV =
                           Some([CV_real_estate |->
                                     [std_dev |-> params.std_dev_real_estate,
                                      expected_return |-> IRR],
                                 CV_stocks |->
                                     Div(FromInt(params.std_dev_stocks),
                                         FromInt(params.expected_annual_return_rate))])]
                /\ pc' = "inflation"
                /\ UNCHANGED error
    /\ UNCHANGED <<params, re, st, real_estate_results, stock_results, shown,
                   first, prev>>

\* Lines 241-247.
InflationAdjusted ==
    /\ pc = "inflation"
    /\ output' = Append(output, "Inflation-Adjusted Returns")
    /\ metrics' =
           [metrics EXCEPT !.real_return =
               Some([real_return_real_estate |->
                         [expected_return |-> real_estate_results[1].IRR,
                          inflation_rate |-> params.inflation_rate],
                     real_return_stocks |->
                         Sub(FromInt(params.expected_annual_return_rate),
                             FromInt(params.inflation_rate))])]
    /\ pc' = "payback"
    /\ UNCHANGED <<params, re, st, real_estate_results, stock_results, shown,
                   error, first, prev>>

\* Lines 250-257.
PaybackPeriod ==
    /\ pc = "payback"
    /\ output' = Append(output, "Payback Period")
    /\ LET r == real_estate_results[1]
           annual_return_stock ==
               Percent(FromInt(params.initial_stock_investment),
                       params.expected_annual_return_rate)
       IN  IF IsZero(r.annual_cash_flow)
           THEN /\ Raise("ZeroDivisionError", "payback_period_real_estate")
                /\ UNCHANGED metrics
           ELSE IF IsZero(annual_return_stock)
           THEN /\ Raise("ZeroDivisionError", "payback_period_stock")
                /\ UNCHANGED metrics
           ELSE /\ metrics' =
                       [metrics EXCEPT !.payback =
                           Some([payback_period_real_estate |->
                                     Div(r.initial_cash_investment, r.annual_cash_flow),
                                 payback_period_stock |->
                                     Div(FromInt(params.initial_stock_investment),
                                         annual_return_stock)])]
                /\ pc' = "conclusion"
                /\ UNCHANGED error
    /\ UNCHANGED <<params, re, st, real_estate_results, stock_results, shown,
                   first, prev>>

\* Lines 260-269.
Conclusion ==
    /\ pc = "conclusion"
    /\ output' = Append(output, "Conclusion")
    /\ pc' = "done"
    /\ UNCHANGED <<params, re, st, real_estate_results, stock_results, shown,
                   metrics, error, first, prev>>

\* ------------------------------------------------------------------------
\* Runs
\* ------------------------------------------------------------------------

Title == "Real Estate vs. Stock Market Investment Comparison"

\* What a run leaves behind.
Outcome ==
    [status |-> pc, error |-> error, real_estate_results |-> real_estate_results,
     stock_results |-> stock_results, shown |-> shown, metrics |-> metrics,
     output |-> output]

\* The namespace and the page kept from one run to the next.
KeepScriptState ==
    /\ UNCHANGED <<re, st, real_estate_results, stock_results, shown, metrics, error>>
    /\ output' = Append(output, Title)

\* Streamlit executes the script in a fresh namespace and on a fresh page;
\* lines 13-39 write the title and read the widgets.
ResetScriptState ==
    /\ re' = None
    /\ st' = None
    /\ real_estate_results' = None
    /\ stock_results' = None
    /\ shown' = None
    /\ metrics' = NoMetrics
    /\ error' = None
    /\ output' = <<Title>>

\* The user sets one widget (possibly to the value it has), which reruns the
\* script from the top.
Rerun ==
    /\ pc \in {"done", "raised"}
    /\ \E w \in DOMAIN Choices : \E v \in Choices[w] :
           params' = [params EXCEPT ![w] = v]
    /\ ResetScriptState
    /\ pc' = "calc_re"
    /\ first' = IF first = None THEN Some(Outcome) ELSE first
    /\ prev' = Some([params |-> params, outcome |-> Outcome])

Init ==
    /\ params = Defaults
    /\ pc = "calc_re"
    /\ re = None
    /\ st = None
    /\ real_estate_results = None
    /\ stock_results = None
    /\ shown = None
    /\ metrics = NoMetrics
    /\ output = <<Title>>
    /\ error = None
    /\ first = None
    /\ prev = None

Next ==
    \/ RE_Setup
    \/ RE_Loop
    \/ RE_Finish
    \/ Stock_Setup
    \/ Stock_Loop
    \/ Stock_Finish
    \/ Display
    \/ Charts
    \/ RiskAssessment
    \/ InflationAdjusted
    \/ PaybackPeriod
    \/ Conclusion
    \/ Rerun

Spec == Init /\ [][Next]_vars

\* ------------------------------------------------------------------------
\* calculate_stock_investment on its own, for every holding period from 0
\* ------------------------------------------------------------------------

StockInputs ==
    {[Defaults EXCEPT !.initial_stock_investment = i,
                      !.expected_annual_return_rate = e,
                      !.holding_period_years = h] :
        i \in {0, 1000, Defaults.initial_stock_investment},
        e \in {0, Defaults.expected_annual_return_rate, 12},
        h \in (0..MaxHolding) \cup {Defaults.holding_period_years}}

InitStock ==
    /\ params \in StockInputs
    /\ pc = "calc_stock"
    /\ re = None
    /\ st = None
    /\ real_estate_results = None
    /\ stock_results = None
    /\ shown = None
    /\ metrics = NoMetrics
    /\ output = <<Title>>
    /\ error = None
    /\ first = None
    /\ prev = None

NextStock ==
    \/ Stock_Setup
    \/ Stock_Loop
    \/ Stock_Finish

SpecStock == InitStock /\ [][NextStock]_vars

\* ------------------------------------------------------------------------
\* Properties
\* ------------------------------------------------------------------------

holding == params.holding_period_years

Returned(results) == results # None

\* C1: whenever calculate_real_estate_investment has returned for a holding
\* period h >= 1, its four per-year lists have length exactly h and its
\* cash_flows has length exactly h + 1; and for h >= 1 building cash_flows
\* never fails on an empty list.
C1_SequenceLengths ==
    /\ (Returned(real_estate_results) /\ holding >= 1) =>
            LET r == real_estate_results[1]
            IN  /\ Len(r.property_value_list) = holding
                /\ Len(r.mortgage_balance_list) = holding
                /\ Len(r.equity_list) = holding
                /\ Len(r.annual_cash_flow_list) = holding
                /\ Len(r.cash_flows) = holding + 1
    /\ holding >= 1 => ~(pc = "raised" /\ error[1].type = "IndexError")

\* The call has returned for a holding period of one year.
C1_Witness ==
    /\ Returned(real_estate_results)
    /\ holding = 1
    /\ Len(real_estate_results[1].equity_list) = 1
    /\ Len(real_estate_results[1].cash_flows) = 2

\* C2: the real-estate cash_flows is the negated initial investment, then the
\* constant annual cash flow for every year but the last, then the annual cash
\* flow plus the equity at sale; every entry of annual_cash_flow_list is the
\* annual cash flow.
C2_CashFlowShape ==
    (Returned(real_estate_results) /\ holding >= 1) =>
        LET r == real_estate_results[1]
        IN  /\ DOMAIN r.cash_flows = 1..(holding + 1)
            /\ r.cash_flows[1] = Sub(Zero, r.initial_cash_investment)
            /\ \A i \in 1..(holding - 1) : r.cash_flows[i + 1] = r.annual_cash_flow
            /\ r.cash_flows[holding + 1] = Add(r.annual_cash_flow, r.equity_at_sale)
            /\ \A i \in DOMAIN r.annual_cash_flow_list :
                   r.annual_cash_flow_list[i] = r.annual_cash_flow

\* A result over several years whose sale adds something to the last flow.
C2_Witness ==
    /\ Returned(real_estate_results)
    /\ holding >= 2
    /\ ~IsZero(real_estate_results[1].equity_at_sale)
    /\ ~IsZero(real_estate_results[1].annual_cash_flow)

\* C3: calculate_stock_investment returns portfolio_values of length h + 1
\* starting at the initial investment, annual_returns of length h following
\* the compounding recurrence, and cash_flows made of the negated initial
\* investment followed by exactly the annual returns.
C3_StockRecurrence ==
    Returned(stock_results) =>
        LET s == stock_results[1]
            h == IF holding > 0 THEN holding ELSE 0
        IN  /\ Len(s.portfolio_values) = h + 1
            /\ s.portfolio_values[1] = FromInt(params.initial_stock_investment)
            /\ Len(s.annual_returns) = h
            /\ \A y \in 1..h :
                   /\ s.annual_returns[y] =
                          Div(Mul(s.portfolio_values[y],
                                  FromInt(params.expected_annual_return_rate)),
                              FromInt(100))
                   /\ s.portfolio_values[y + 1] =
                          Add(s.portfolio_values[y], s.annual_returns[y])
            /\ Len(s.cash_flows) = h + 1
            /\ s.cash_flows[1] = Sub(Zero, FromInt(params.initial_stock_investment))
            /\ \A y \in 1..h : s.cash_flows[y + 1] = s.annual_returns[y]

\* A result that compounds over at least two years.
C3_Witness ==
    /\ Returned(stock_results)
    /\ holding >= 2
    /\ params.expected_annual_return_rate > 0
    /\ params.initial_stock_investment > 0

\* C4: a zero denominator never ends the run with an exception.
C4_ZeroDenominatorDoesNotRaise ==
    ~(pc = "raised" /\ error[1].type = "ZeroDivisionError")

\* C5: with a holding period of 0 the real-estate calculator returns (with
\* empty lists) instead of raising.
C5_ZeroHoldingCompletes ==
    holding = 0 => ~(pc = "raised" /\ error[1].type = "IndexError")

Finished == pc \in {"done", "raised"}

\* C6: the outcome of a run is a function of its widget values alone: a run
\* with the widget values of the run before it ends as that one did, and a
\* run with the default widget values ends as the first run did, whatever
\* happened in between.
C6_OutcomeDependsOnParamsOnly ==
    Finished =>
        /\ (prev # None /\ prev[1].params = params) => Outcome = prev[1].outcome
        /\ (first # None /\ params = Defaults) => Outcome = first[1]

\* A run over the default values right after a run that raised.
C6_Witness ==
    /\ Finished
    /\ prev # None
    /\ prev[1].outcome.status = "raised"
    /\ first # None
    /\ params = Defaults
    /\ pc = "done"

StockKey(p) ==
    <<p.initial_stock_investment, p.expected_annual_return_rate,
      p.holding_period_years>>

RealEstateKey(p) ==
    <<p.purchase_price, p.down_payment_percent, p.annual_interest_rate,
      p.loan_term_years, p.monthly_rental_income, p.operating_expenses_percent,
      p.appreciation_rate, p.closing_costs_percent, p.selling_costs_percent,
      p.holding_period_years>>

WithoutNPV(r) == [f \in (DOMAIN r) \ {"NPV"} |-> r[f]]

\* The runs the current one is compared with.
Earlier ==
    {e[1] : e \in {prev} \ {None}}
    \cup {[params |-> Defaults, outcome |-> f[1]] : f \in {first} \ {None}}

Independent ==
    \A e \in Earlier :
        /\ (Returned(stock_results) /\ Returned(e.outcome.stock_results)
                /\ StockKey(e.params) = StockKey(params))
           => stock_results = e.outcome.stock_results
        /\ (Returned(real_estate_results) /\ Returned(e.outcome.real_estate_results)
                /\ RealEstateKey(e.params) = RealEstateKey(params))
           => /\ WithoutNPV(real_estate_results[1])
                     = WithoutNPV(e.outcome.real_estate_results[1])
              /\ e.params.expected_annual_return_rate
                     = params.expected_annual_return_rate
                 => real_estate_results[1].NPV = e.outcome.real_estate_results[1].NPV

\* C7: the stock result depends on the stock inputs and the holding period
\* only; the real-estate result depends on the real-estate inputs and the
\* holding period only, except for its NPV, which also depends on the expected
\* stock return; and only the user changes a widget value.
C7_CalculatorsIndependent ==
    /\ []Independent
    /\ [][pc' # "calc_re" => params' = params]_vars

\* Two consecutive runs that differ in the expected stock return only: the
\* real-estate results differ in their NPV and in nothing else.
C7_Witness ==
    /\ Returned(real_estate_results)
    /\ prev # None
    /\ Returned(prev[1].outcome.real_estate_results)
    /\ RealEstateKey(prev[1].params) = RealEstateKey(params)
    /\ prev[1].params.expected_annual_return_rate # params.expected_annual_return_rate
    /\ real_estate_results[1].NPV # prev[1].outcome.real_estate_results[1].NPV

\* |a - b| <= tol
Within(a, b, tol) == Leq(Abs(Sub(a, b)), tol)

HasDefaultPurchase ==
    \A w \in {"purchase_price", "down_payment_percent", "annual_interest_rate",
              "loan_term_years", "monthly_rental_income",
              "operating_expenses_percent", "closing_costs_percent"} :
        params[w] = Defaults[w]

\* C8: with the default purchase, loan, rent and cost inputs the loan is
\* 240000, the monthly payment is within 0.01 of 1145.80, the initial cash
\* investment is 75000, the annual cash flow is 3050.4 to one decimal and the
\* cash-on-cash return is within 0.01 of 4.07 percent.
C8_DefaultNumbers ==
    /\ (HasDefaultPurchase /\ pc = "re_loop") =>
           /\ re[1].loan_amount = FromInt(240000)
           /\ Within(re[1].M, Add(FromInt(1145), Dec(80, 2)), Dec(1, 2))
           /\ re[1].initial_cash_investment = FromInt(60000 + 15000)
           /\ Within(re[1].annual_cash_flow, Add(FromInt(3050), Dec(4, 1)), Dec(1, 1))
           /\ Within(re[1].cash_on_cash_return, Add(FromInt(4), Dec(7, 2)), Dec(1, 2))
    /\ (HasDefaultPurchase /\ Returned(real_estate_results)) =>
           /\ real_estate_results[1].initial_cash_investment = FromInt(75000)
           /\ Within(real_estate_results[1].annual_cash_flow,
                     Add(FromInt(3050), Dec(4, 1)), Dec(1, 1))
           /\ Within(real_estate_results[1].cash_on_cash_return,
                     Add(FromInt(4), Dec(7, 2)), Dec(1, 2))

\* The call has returned for the default inputs.
C8_Witness ==
    /\ params = Defaults
    /\ Returned(real_estate_results)

\* C9: in what calculate_real_estate_investment returns, the property values
\* compound from the purchase price, the mortgage balances follow
\* balance * (1 + r) ** 12 - 12 M from the loan amount, each equity is
\* property value minus mortgage balance, and the equity at sale is the last
\* equity minus the selling costs.
C9_AnnualRecurrence ==
    (pc = "calc_stock" /\ Returned(real_estate_results) /\ holding >= 1) =>
        LET res == real_estate_results[1]
            r == Div(Div(FromInt(params.annual_interest_rate), FromInt(12)),
                     FromInt(100))
            M == MonthlyPayment(params)
            factor == Add(FromInt(1), Div(FromInt(params.appreciation_rate),
                                          FromInt(100)))
            value(y) == IF y = 0 THEN FromInt(params.purchase_price)
                        ELSE res.property_value_list[y]
            balance(y) == IF y = 0 THEN loan_amount(params)
                          ELSE res.mortgage_balance_list[y]
            year_of_interest == Pow(Add(FromInt(1), r), 12)
        IN  /\ \A y \in 1..holding :
                   /\ res.property_value_list[y] = Mul(value(y - 1), factor)
                   /\ res.mortgage_balance_list[y] =
                          Sub(Mul(balance(y - 1), year_of_interest),
                              Mul(M, FromInt(12)))
                   /\ res.equity_list[y] =
                          Sub(res.property_value_list[y], res.mortgage_balance_list[y])
            /\ res.equity_at_sale =
                   Sub(res.equity_list[holding],
                       Div(Mul(res.property_value_list[holding],
                               FromInt(params.selling_costs_percent)),
                           FromInt(100)))

\* A result over at least two years of a loan that bears interest.
C9_Witness ==
    /\ pc = "calc_stock"
    /\ Returned(real_estate_results)
    /\ holding >= 2
    /\ params.annual_interest_rate > 0
    /\ params.down_payment_percent < 100

NoDerivedMetric == metrics = NoMetrics

\* C10: a run goes through real-estate calculation, stock calculation,
\* results display and derived metrics in that order, and an exception ends
\* it: nothing that comes after the step that raised exists.
C10_StepOrder ==
    /\ pc \in {"calc_re", "re_loop"} =>
           /\ ~Returned(real_estate_results)
           /\ ~Returned(stock_results)
           /\ shown = None
           /\ NoDerivedMetric
    /\ pc \in {"calc_stock", "stock_loop"} =>
           /\ Returned(real_estate_results)
           /\ ~Returned(stock_results)
           /\ shown = None
           /\ NoDerivedMetric
    /\ pc = "display" =>
           /\ Returned(real_estate_results)
           /\ Returned(stock_results)
           /\ shown = None
           /\ NoDerivedMetric
    /\ pc \in {"charts", "risk"} => shown # None /\ NoDerivedMetric
    /\ Returned(stock_results) => Returned(real_estate_results)
    /\ shown # None => Returned(stock_results)
    /\ metrics.CV # None => shown # None
    /\ metrics.real_return # None => metrics.CV # None
    /\ metrics.payback # None => metrics.real_return # None
    /\ (pc = "raised" /\ error[1].at \in {"M", "cash_on_cash_return", "cash_flows"}) =>
           /\ ~Returned(real_estate_results)
           /\ ~Returned(stock_results)
           /\ shown = None
           /\ NoDerivedMetric
    /\ (pc = "raised" /\ error[1].at \in {"CV_real_estate", "CV_stocks"}) =>
           NoDerivedMetric
    /\ (pc = "raised"
            /\ error[1].at \in {"payback_period_real_estate", "payback_period_stock"}) =>
           metrics.payback = None

\* The real-estate calculation raised: no stock result, no derived metric.
C10_Witness ==
    /\ pc = "raised"
    /\ error[1].at = "M"
    /\ ~Returned(stock_results)
    /\ NoDerivedMetric
====
